---- MODULE Spec2Model ----
(***************************************************************************)
(* Model of the scenario perturbation engine of src/core/action.py:        *)
(* the field editor (set_values), the redistributors                       *)
(* (distribute_generators_p, distribute_loads_p), the bulk setter          *)
(* (set_gl_p0), the topology mutator (random_open_acline) and the          *)
(* scenario runner (load_actions).                                         *)
(*                                                                         *)
(* Floating point numbers are modelled by exact rationals <<n, d>> in      *)
(* lowest terms with d > 0, so every equality below is an equality of      *)
(* real numbers; the random normal multipliers of the code are drawn from  *)
(* the finite set MultVals of positive rationals, so that every total      *)
(* weight is non-zero and every division is defined.                       *)
(*                                                                         *)
(* Each operation has a specification of its own, whose initial states     *)
(* are the tables it is called on: SpecGen, SpecLoad, SpecGl, SpecClip     *)
(* (the three operations that clip, with clip = True), SpecOpen and        *)
(* SpecAct.  The variables an operation does not use keep an idle value.   *)
(***************************************************************************)
EXTENDS Integers, Sequences, FiniteSets, TLC

\* ------------------------------------------------------------------ bounds
\* Largest |delta| handed to a redistributor.
MaxDelta == 4
\* Largest |delta| handed to the load redistributor.
MaxLoadDelta == 1
\* Largest count handed to random_open_acline.
MaxNum == 3
\* Largest number of action files handed to load_actions.
MaxFiles == 2

\* Largest number a cell of the edited dataset is let to reach.
MaxCell == 2

\* EPS = 1e-8 is 1 / EPS_DEN.
EPS_DEN == 100000000

VARIABLES
    pc,         \* position of the modelled call: "idle", "loop", "done", "raised"
    call,       \* the arguments of the call that was made
    ret,        \* the value the call returned
    tbl,        \* generator / load table: id -> row
    tbl0,       \* the table before the call
    acline,     \* acline table: id -> [ibus, jbus, mark]
    acline0,    \* the acline table before the call
    transformer,\* transformer table: id -> [ibus, jbus, mark]
    graph,      \* PowerGraph.G: set of edges <<ibus, jbus, key>>
    indices,    \* random_open_acline: the candidate pool
    num,        \* random_open_acline: the number still to open
    opened,     \* random_open_acline: the list ret
    draws,      \* random_open_acline: iterations of the loop so far
    data,       \* load_actions / set_values: etype -> id -> column -> cell
    data0,      \* the dataset before the call
    files,      \* load_actions: the list of file names
    fpos,       \* load_actions: number of files processed
    name,       \* load_actions: the local variable name
    result,     \* load_actions: the dict ret
    log         \* load_actions: one record per saved scenario

vars == <<pc, call, ret, tbl, tbl0, acline, acline0, transformer, graph, indices,
          num, opened, draws, data, data0, files, fpos, name, result, log>>

numVars == <<pc, call, ret, tbl, tbl0>>
topoVars == <<acline, acline0, transformer, graph, indices, num, opened, draws>>
actVars == <<data, data0, files, fpos, name, result, log>>

\* ------------------------------------------------------------- rationals
Abs(x) == IF x < 0 THEN -x ELSE x

RECURSIVE GCD(_, _)
GCD(a, b) == IF b = 0 THEN a ELSE GCD(b, a % b)

\* The rational n / d (d # 0) in lowest terms with a positive denominator.
Rat(n, d) ==
    LET g == GCD(Abs(n), Abs(d))
        s == IF d < 0 THEN -1 ELSE 1
    IN  <<s * (n \div g), Abs(d) \div g>>

R(n) == <<n, 1>>
Zero == R(0)
One == R(1)

RAdd(x, y) == Rat(x[1] * y[2] + y[1] * x[2], x[2] * y[2])
RNeg(x) == <<-x[1], x[2]>>
RSub(x, y) == RAdd(x, RNeg(y))
\* Cross-reduced product, so that intermediate values stay small.
RMul(x, y) ==
    LET g1 == GCD(Abs(x[1]), y[2])
        g2 == GCD(Abs(y[1]), x[2])
    IN  Rat((x[1] \div g1) * (y[1] \div g2), (x[2] \div g2) * (y[2] \div g1))
\* x / y for y # 0.
RDiv(x, y) == RMul(x, IF y[1] < 0 THEN <<-y[2], -y[1]>> ELSE <<y[2], y[1]>>)
RLt(x, y) == x[1] * y[2] < y[1] * x[2]
RLe(x, y) == x[1] * y[2] <= y[1] * x[2]
RMax(x, y) == IF RLt(x, y) THEN y ELSE x
RMin(x, y) == IF RLt(y, x) THEN y ELSE x

RECURSIVE RSum(_, _)
\* np.sum of the series f restricted to the labels S.
RSum(f, S) ==
    IF S = {} THEN Zero
    ELSE LET i == CHOOSE j \in S : TRUE IN RAdd(f[i], RSum(f, S \ {i}))

\* np.clip(x, lo, hi) = minimum(maximum(x, lo), hi).
Clip(x, lo, hi) == RMin(RMax(x, lo), hi)

EPS == Rat(1, EPS_DEN)

\* ------------------------------------------------------- input domains
\* Row identifiers of a generator / load table.
Ids == {1, 2}
\* Samples of np.random.normal(loc=1.0, scale=sigma).
MultVals == {Rat(1, 2), R(2)}
Ones == [i \in Ids |-> One]
\* sigma / p_sigma / factor_sigma: None (on = FALSE), or given, with the
\* multipliers m the random generator then draws.
Sigmas == {[on |-> FALSE, m |-> Ones]} \cup {[on |-> TRUE, m |-> f] : f \in [Ids -> MultVals]}
Deltas == {R(d) : d \in -MaxDelta .. MaxDelta}
LoadDeltas == {R(d) : d \in -MaxLoadDelta .. MaxLoadDelta}

\* Samples of np.random.rand(): uniform on [0, 1).
RandVals == {Zero, Rat(1, 2)}
Rands == [Ids -> RandVals]
\* v0 of full_open_generators: None (on = FALSE), or a float.
V0s == {[on |-> FALSE, val |-> One], [on |-> TRUE, val |-> Rat(21, 20)]}

Row(mk, p, q, pl, ql) ==
    [mark |-> mk, p0 |-> R(p), q0 |-> R(q), v0 |-> One, pmin |-> R(pl[1]), pmax |-> R(pl[2]),
     qmin |-> R(ql[1]), qmax |-> R(ql[2])]
RowsOf(P, Q, PL, QL) == {Row(mk, p, q, pl, ql) : mk \in {0, 1}, p \in P, q \in Q, pl \in PL, ql \in QL}

NoCall == [fn |-> "none", delta |-> Zero, indices |-> {}, sigma |-> [on |-> FALSE, m |-> Ones],
           clip |-> FALSE, keep_factor |-> FALSE, factor_sigma |-> [on |-> FALSE, m |-> Ones],
           value |-> [i \in Ids |-> Zero], inplace |-> FALSE,
           rand |-> [i \in Ids |-> Zero], v0 |-> [on |-> FALSE, val |-> One]]

\* Return values: None, a float, or a pandas Series (label -> float).
RetNone == [kind |-> "None", val |-> Zero, ser |-> <<>>]
RetFloat(x) == [kind |-> "float", val |-> x, ser |-> <<>>]
RetSeries(f) == [kind |-> "Series", val |-> Zero, ser |-> f]
\* An exception that left the call.
RetError(e) == [kind |-> e, val |-> Zero, ser |-> <<>>]

\* ------------------------------------------- distribute_generators_p
\* sub after the mark / indices filters (lines 58-61).
GenInService(g, idx) ==
    LET on == {i \in DOMAIN g : g[i].mark = 1}
    IN  IF idx # {} THEN {i \in on : i \in idx} ELSE on

\* sub after the headroom filter (lines 63 and 70).
GenSub(g, delta, idx) ==
    IF RLt(Zero, delta)
    THEN {i \in GenInService(g, idx) : RLt(g[i].p0, g[i].pmax)}
    ELSE {i \in GenInService(g, idx) : RLt(g[i].pmin, g[i].p0)}

\* margin (lines 64 and 71).
GenMargin(g, delta) ==
    [i \in DOMAIN g |-> IF RLt(Zero, delta) THEN RSub(g[i].pmax, g[i].p0)
                                         ELSE RSub(g[i].p0, g[i].pmin)]

\* The value returned on the insufficient path for delta <= 0 (line 75).
GenShortfallDown(delta, margin, margin_sum, sub) ==
    RetSeries([i \in sub |-> RAdd(delta, margin[i])])

\* The whole table clipped (lines 81-82).
ClipPSkipped(g) == g
ClipP(g) == [i \in DOMAIN g |-> [g[i] EXCEPT !.p0 = Clip(g[i].p0, g[i].pmin, g[i].pmax)]]
ClipQ(g) == [i \in DOMAIN g |-> [g[i] EXCEPT !.q0 = Clip(g[i].q0, g[i].qmin, g[i].qmax)]]

distribute_generators_p(g, delta, idx, sigma, clip) ==
    LET sub == GenSub(g, delta, idx)
        margin == GenMargin(g, delta)
        margin_sum == RSum(margin, sub)
        up == RLt(Zero, delta)
    IN  IF up /\ RLe(margin_sum, delta)
        THEN [tbl |-> [i \in DOMAIN g |-> IF i \in sub THEN [g[i] EXCEPT !.p0 = g[i].pmax] ELSE g[i]],
              ret |-> RetFloat(RSub(delta, margin_sum))]
        ELSE IF ~up /\ RLe(margin_sum, RNeg(delta))
        THEN [tbl |-> [i \in DOMAIN g |-> IF i \in sub THEN [g[i] EXCEPT !.p0 = g[i].pmin] ELSE g[i]],
              ret |-> GenShortfallDown(delta, margin, margin_sum, sub)]
        ELSE
        LET margin2 == IF sigma.on THEN [i \in DOMAIN g |-> RMul(margin[i], sigma.m[i])] ELSE margin
            margin_sum2 == IF sigma.on THEN RSum(margin2, sub) ELSE margin_sum
            g2 == [i \in DOMAIN g |->
                     IF i \in sub
                     THEN [g[i] EXCEPT !.p0 = RAdd(g[i].p0, RMul(RDiv(margin2[i], margin_sum2), delta))]
                     ELSE g[i]]
        IN  [tbl |-> IF clip THEN ClipP(g2) ELSE g2, ret |-> RetFloat(Zero)]

\* ---------------------------------------------------- full_open_generators
\* Lines 165-168: the listed units are switched on at full output; v0 is
\* written when it is given.
full_open_generators(g, idx, v0) ==
    [i \in DOMAIN g |->
        IF i \in idx
        THEN [g[i] EXCEPT !.mark = 1, !.p0 = g[i].pmax,
                          !.v0 = IF v0.on THEN v0.val ELSE g[i].v0]
        ELSE g[i]]

\* --------------------------------------------------- idle parts of the state
TopoIdle ==
    /\ acline = <<>> /\ acline0 = <<>> /\ transformer = <<>> /\ graph = {}
    /\ indices = {} /\ num = 0 /\ opened = <<>> /\ draws = 0
ActIdle ==
    /\ data = <<>> /\ data0 = <<>> /\ files = <<>> /\ fpos = 0
    /\ name = <<>> /\ result = <<>> /\ log = <<>>

\* ------------------------------------------------ generator specification
GenTables == [Ids -> RowsOf(0 .. 3, {0}, {<<0, 2>>, <<1, 3>>}, {<<0, 0>>})]

InitGen ==
    /\ pc = "idle" /\ call = NoCall /\ ret = RetNone
    /\ tbl \in GenTables /\ tbl0 = tbl
    /\ TopoIdle /\ ActIdle

DistributeGeneratorsP(Clips) ==
    /\ pc = "idle"
    /\ \E delta \in Deltas, idx \in SUBSET Ids, sigma \in Sigmas, clip \in Clips :
         LET r == distribute_generators_p(tbl, delta, idx, sigma, clip)
         IN  /\ tbl' = r.tbl
             /\ ret' = r.ret
             /\ call' = [NoCall EXCEPT !.fn = "distribute_generators_p", !.delta = delta,
                                       !.indices = idx, !.sigma = sigma, !.clip = clip]
    /\ pc' = "done"
    /\ UNCHANGED <<tbl0, topoVars, actVars>>

FullOpenGenerators ==
    /\ pc = "idle"
    /\ \E idx \in SUBSET Ids, v0 \in V0s :
         /\ tbl' = full_open_generators(tbl, idx, v0)
         /\ call' = [NoCall EXCEPT !.fn = "full_open_generators", !.indices = idx, !.v0 = v0]
    /\ ret' = RetNone
    /\ pc' = "done"
    /\ UNCHANGED <<tbl0, topoVars, actVars>>

NextGen == DistributeGeneratorsP(BOOLEAN) \/ FullOpenGenerators

SpecGen == InitGen /\ [][NextGen]_vars

\* ---------------------------------------------------- distribute_loads_p
\* sub (lines 102-105).
LoadSub(l, idx) ==
    LET on == {i \in DOMAIN l : l[i].mark = 1 /\ RLt(Zero, l[i].p0)}
    IN  IF idx # {} THEN {i \in on : i \in idx} ELSE on

\* factor (lines 107-109), defined on sub.
LoadFactor(l, sub, factor_sigma) ==
    [i \in sub |-> IF factor_sigma.on THEN RMul(RDiv(l[i].q0, l[i].p0), factor_sigma.m[i])
                                      ELSE RDiv(l[i].q0, l[i].p0)]

\* ratio (lines 110-112), defined on sub.
LoadRatio(l, sub, p_sigma) ==
    [i \in sub |-> IF p_sigma.on THEN RMul(l[i].p0, p_sigma.m[i]) ELSE l[i].p0]

\* sub['p0'] as line 113 reads it.  ratio is the Series sub['p0'] itself, and
\* `ratio *= ...` (line 112) is an in-place operation: a pandas build without
\* copy-on-write writes the product back into sub (inplace = TRUE), a build
\* with copy-on-write leaves sub['p0'] alone (inplace = FALSE).
LoadBase(l, sub, p_sigma, inplace) ==
    [i \in sub |-> IF p_sigma.on /\ inplace THEN RMul(l[i].p0, p_sigma.m[i]) ELSE l[i].p0]

distribute_loads_p(l, delta, idx, p_sigma, keep_factor, factor_sigma, clip, inplace) ==
    LET sub == LoadSub(l, idx)
        factor == LoadFactor(l, sub, factor_sigma)
        ratio == LoadRatio(l, sub, p_sigma)
        total == RSum(ratio, sub)
        base == LoadBase(l, sub, p_sigma, inplace)
        l1 == [i \in DOMAIN l |->
                 IF i \in sub
                 THEN [l[i] EXCEPT !.p0 = RAdd(base[i], RMul(RDiv(ratio[i], total), delta))]
                 ELSE l[i]]
        l2 == IF clip THEN ClipP(l1) ELSE l1
        l3 == [i \in DOMAIN l |->
                 IF i \in sub THEN [l2[i] EXCEPT !.q0 = RMul(l2[i].p0, factor[i])] ELSE l2[i]]
    IN  IF ~keep_factor THEN l2
        ELSE IF clip THEN ClipQ(l3) ELSE l3

\* ---------------------------------------------------------- random_load_q0
\* Lines 130-136, on every row of the table: q0 scaled by the normal samples
\* when sigma is given, else drawn between qmin and qmax; then the clip.
random_load_q0(l, sigma, rand, clip) ==
    LET l1 == [i \in DOMAIN l |->
                 [l[i] EXCEPT !.q0 = IF sigma.on
                                     THEN RMul(l[i].q0, sigma.m[i])
                                     ELSE RAdd(l[i].qmin, RMul(rand[i], RSub(l[i].qmax, l[i].qmin)))]]
    IN  IF clip THEN ClipQ(l1) ELSE l1

\* ------------------------------------------------------------- set_gl_p0
\* factor (line 148).
GlFactorSlip(row) == RDiv(row.q0, RSub(row.p0, EPS))
GlFactor(row) == RDiv(row.q0, RAdd(row.p0, EPS))

set_gl_p0(d, value, keep_factor, clip) ==
    LET d1 == [i \in DOMAIN d |-> [d[i] EXCEPT !.p0 = value[i]]]
        d2 == IF keep_factor
              THEN [i \in DOMAIN d |-> [d1[i] EXCEPT !.q0 = RMul(d1[i].p0, GlFactor(d[i]))]]
              ELSE d1
    IN  IF clip THEN ClipQ(ClipP(d2)) ELSE d2

\* ------------------------------------------------------ load specification
LoadTables == [Ids -> RowsOf(0 .. 2, {0, 1}, {<<0, 2>>, <<1, 3>>}, {<<0, 1>>})]

InitLoad ==
    /\ pc = "idle" /\ call = NoCall /\ ret = RetNone
    /\ tbl \in LoadTables /\ tbl0 = tbl
    /\ TopoIdle /\ ActIdle

\* The in-place choice matters only when p_sigma is given.
DistributeLoadsP(Clips) ==
    /\ pc = "idle"
    /\ \E delta \in LoadDeltas, idx \in SUBSET Ids, p_sigma \in Sigmas, keep_factor \in BOOLEAN,
          factor_sigma \in Sigmas, clip \in Clips, inplace \in BOOLEAN :
         /\ ~p_sigma.on => ~inplace
         /\ ~keep_factor => ~factor_sigma.on
         /\ tbl' = distribute_loads_p(tbl, delta, idx, p_sigma, keep_factor, factor_sigma, clip, inplace)
         /\ call' = [NoCall EXCEPT !.fn = "distribute_loads_p", !.delta = delta, !.indices = idx,
                                   !.sigma = p_sigma, !.keep_factor = keep_factor,
                                   !.factor_sigma = factor_sigma, !.clip = clip, !.inplace = inplace]
    /\ ret' = RetNone
    /\ pc' = "done"
    /\ UNCHANGED <<tbl0, topoVars, actVars>>

\* The uniform samples are drawn only when sigma is None.
RandomLoadQ0(Clips) ==
    /\ pc = "idle"
    /\ \E sigma \in Sigmas, rand \in Rands, clip \in Clips :
         /\ sigma.on => rand = NoCall.rand
         /\ tbl' = random_load_q0(tbl, sigma, rand, clip)
         /\ call' = [NoCall EXCEPT !.fn = "random_load_q0", !.sigma = sigma, !.rand = rand,
                                   !.clip = clip]
    /\ ret' = RetNone
    /\ pc' = "done"
    /\ UNCHANGED <<tbl0, topoVars, actVars>>

NextLoad == DistributeLoadsP(BOOLEAN) \/ RandomLoadQ0(BOOLEAN)

SpecLoad == InitLoad /\ [][NextLoad]_vars

\* ------------------------------------------------- set_gl_p0 specification
GlTables == [Ids -> RowsOf(-1 .. 2, -1 .. 2, {<<0, 1>>}, {<<0, 1>>})]
GlValues == [Ids -> {R(v) : v \in -1 .. 2}]

InitGl ==
    /\ pc = "idle" /\ call = NoCall /\ ret = RetNone
    /\ tbl \in GlTables /\ tbl0 = tbl
    /\ TopoIdle /\ ActIdle

SetGlP0(Clips) ==
    /\ pc = "idle"
    /\ \E value \in GlValues, keep_factor \in BOOLEAN, clip \in Clips :
         /\ tbl' = set_gl_p0(tbl, value, keep_factor, clip)
         /\ call' = [NoCall EXCEPT !.fn = "set_gl_p0", !.value = value,
                                   !.keep_factor = keep_factor, !.clip = clip]
    /\ ret' = RetNone
    /\ pc' = "done"
    /\ UNCHANGED <<tbl0, topoVars, actVars>>

NextGl == SetGlP0(BOOLEAN)

SpecGl == InitGl /\ [][NextGl]_vars

\* ---------------------------------------------- clipping specification
\* The operations that take clip, each called with clip = True.
ClipTables == [Ids -> RowsOf(0 .. 3, {0, 2}, {<<0, 2>>, <<1, 3>>}, {<<0, 1>>})]

InitClip ==
    /\ pc = "idle" /\ call = NoCall /\ ret = RetNone
    /\ tbl \in ClipTables /\ tbl0 = tbl
    /\ TopoIdle /\ ActIdle

NextClip ==
    \/ DistributeGeneratorsP({TRUE})
    \/ DistributeLoadsP({TRUE})
    \/ SetGlP0({TRUE})
    \/ RandomLoadQ0({TRUE})

SpecClip == InitClip /\ [][NextClip]_vars

\* ---------------------------------------------------- random_open_acline
Buses == {1, 2, 3}
AclineIds == {"L1", "L2", "L3"}
TransformerIds == {"T1"}
\* Branch rows; a branch is stored with ibus <= jbus.
BranchRows == {[ibus |-> a, jbus |-> b, mark |-> mk] : a \in Buses, b \in Buses, mk \in {0, 1}}
AclineRows == {r \in BranchRows : r.ibus <= r.jbus}
TransformerRows == {r \in BranchRows : r.ibus < r.jbus /\ r.jbus = r.ibus + 1}

TopoNoCall == [fn |-> "none", num |-> 0, keep_link |-> FALSE]

\* PowerGraph(power, graph_type='multi', node_type='bus', on_only=True): one
\* edge <<ibus, jbus, key>> per in-service acline and transformer.
BuildGraph(acl, tr) ==
    {<<acl[i].ibus, acl[i].jbus, i>> : i \in {j \in DOMAIN acl : acl[j].mark = 1}}
        \cup {<<tr[i].ibus, tr[i].jbus, i>> : i \in {j \in DOMAIN tr : tr[j].mark = 1}}

RECURSIVE Reach(_, _)
\* The buses reachable from the set S over the undirected edges E.
Reach(S, E) ==
    LET next == S \cup {e[2] : e \in {f \in E : f[1] \in S}}
                  \cup {e[1] : e \in {f \in E : f[2] \in S}}
    IN  IF next = S THEN S ELSE Reach(next, E)

\* PowerGraph.is_connected(a, b, excluded): whether a path joins a and b once
\* the excluded edges are left out.
is_connected(G, a, b, excluded) == b \in Reach({a}, G \ excluded)

\* indices (line 190).
Candidates(acl) == {i \in DOMAIN acl : acl[i].mark = 1 /\ acl[i].ibus # acl[i].jbus}

\* indices.drop(idx) (line 197).
DropKept(pool, idx) == pool
Drop(pool, idx) == pool \ {idx}

\* The test of line 200: whether the draw is discarded.
Discarded(G, edge) == is_connected(G, edge[1], edge[2], {edge})

InitOpen ==
    /\ pc = "idle" /\ call = TopoNoCall /\ ret = RetNone
    /\ tbl = <<>> /\ tbl0 = <<>>
    /\ acline \in [AclineIds -> AclineRows] /\ acline0 = acline
    /\ transformer \in [TransformerIds -> TransformerRows]
    /\ graph = {} /\ indices = {} /\ num = 0 /\ opened = <<>> /\ draws = 0
    /\ ActIdle

\* Lines 176-177, by a driver before the call: every acline and every
\* transformer is put in service.
close_all_branches(t) == [i \in DOMAIN t |-> [t[i] EXCEPT !.mark = 1]]

CloseAllBranches ==
    /\ pc = "idle"
    /\ acline' = close_all_branches(acline)
    /\ transformer' = close_all_branches(transformer)
    /\ acline0' = acline'
    /\ UNCHANGED <<pc, call, ret, tbl, tbl0, graph, indices, num, opened, draws, actVars>>

\* Lines 188-192: the call is entered.
OpenEnter ==
    /\ pc = "idle"
    /\ \E n \in 0 .. MaxNum, keep_link \in BOOLEAN :
         /\ call' = [fn |-> "random_open_acline", num |-> n, keep_link |-> keep_link]
         /\ num' = n
         /\ graph' = IF keep_link THEN BuildGraph(acline, transformer) ELSE {}
    /\ indices' = Candidates(acline)
    /\ opened' = <<>>
    /\ draws' = 0
    /\ pc' = "loop"
    /\ acline0' = acline
    /\ UNCHANGED <<ret, tbl, tbl0, acline, transformer, actVars>>

\* Line 193 fails: the loop ends and ret is returned (line 206).
OpenReturn ==
    /\ pc = "loop" /\ ~(num > 0)
    /\ pc' = "done"
    /\ UNCHANGED <<call, ret, tbl, tbl0, topoVars, actVars>>

\* Lines 194-195.
OpenRaise ==
    /\ pc = "loop" /\ num > 0 /\ Cardinality(indices) < num
    /\ pc' = "raised"
    /\ UNCHANGED <<call, ret, tbl, tbl0, topoVars, actVars>>

\* Lines 196-205: one iteration that draws a candidate.
OpenDraw ==
    /\ pc = "loop" /\ num > 0 /\ ~(Cardinality(indices) < num)
    /\ \E idx \in indices :
         LET edge == <<acline[idx].ibus, acline[idx].jbus, idx>>
         IN  /\ indices' = Drop(indices, idx)
             /\ draws' = draws + 1
             /\ \/ /\ call.keep_link /\ Discarded(graph, edge)
                   /\ UNCHANGED <<graph, acline, opened, num>>
                \/ /\ ~(call.keep_link /\ Discarded(graph, edge))
                   /\ graph' = IF call.keep_link THEN graph \ {edge} ELSE graph
                   /\ acline' = [acline EXCEPT ![idx].mark = 0]
                   /\ opened' = Append(opened, idx)
                   /\ num' = num - 1
    /\ UNCHANGED <<pc, call, ret, tbl, tbl0, acline0, transformer, actVars>>

NextOpen == CloseAllBranches \/ OpenEnter \/ OpenReturn \/ OpenRaise \/ OpenDraw

\* The call is sequential code: it takes its next step whenever it has one.
SpecOpen == InitOpen /\ [][NextOpen]_vars /\ WF_vars(NextOpen)

\* ------------------------------------------------------------ set_values
\* A cell of a table: a number or NaN.
Num(v) == [nan |-> FALSE, v |-> v]
NaN == [nan |-> TRUE, v |-> 0]
CellAdd(c, v) == IF c.nan THEN NaN ELSE Num(c.v + v)

\* A table is [columns, index, rows]: its column names, its row labels in
\* row order, and label -> column -> cell.
Labels(t) == {t.index[k] : k \in DOMAIN t.index}

\* df.loc[k, column] = c (line 38): an unknown label k enlarges the frame by
\* a row whose other columns are NaN.
LocSet(t, k, column, c) ==
    IF k \in Labels(t)
    THEN [t EXCEPT !.rows[k][column] = c]
    ELSE [t EXCEPT !.index = Append(@, k),
                   !.rows = [i \in Labels(t) \cup {k} |->
                               IF i = k THEN [col \in t.columns |-> IF col = column THEN c ELSE NaN]
                                        ELSE @[i]]]

RECURSIVE SetDict(_, _, _, _)
\* Lines 34-38 over the items <<k, v>> of the dict, in its order.  A delta
\* on an unknown label reads df.loc[k, column] first and raises KeyError.
SetDict(t, column, items, delta) ==
    IF items = <<>> THEN [t |-> t, err |-> "none"]
    ELSE LET k == items[1][1]
             v == items[1][2]
         IN  IF delta
             THEN IF k \notin Labels(t) THEN [t |-> t, err |-> "KeyError"]
                  ELSE SetDict([t EXCEPT !.rows[k][column] = CellAdd(@, v)], column, Tail(items), delta)
             ELSE SetDict(LocSet(t, k, column, Num(v)), column, Tail(items), delta)

\* Lines 40-43 for an array: it must be as long as the table.
SetArray(t, column, a, delta) ==
    IF Len(a) # Len(t.index) THEN [t |-> t, err |-> "ValueError"]
    ELSE [t |-> [t EXCEPT !.rows = [i \in Labels(t) |->
                    LET k == CHOOSE j \in DOMAIN t.index : t.index[j] = i
                    IN  [@[i] EXCEPT ![column] = IF delta THEN CellAdd(@, a[k]) ELSE Num(a[k])]]],
          err |-> "none"]

\* Lines 40-43 for a Series: aligned on the labels, NaN where it has none.
SetSeries(t, column, m, delta) ==
    [t |-> [t EXCEPT !.rows = [i \in Labels(t) |->
               [@[i] EXCEPT ![column] = IF i \notin DOMAIN m THEN NaN
                                        ELSE IF delta THEN CellAdd(@, m[i]) ELSE Num(m[i])]]],
     err |-> "none"]

set_values(d, etype, column, values, delta) ==
    IF etype \notin DOMAIN d \/ column \notin d[etype].columns
    THEN [data |-> d, err |-> "ValueError"]
    ELSE LET r == CASE values.kind = "dict" -> SetDict(d[etype], column, values.v, delta)
                    [] values.kind = "array" -> SetArray(d[etype], column, values.v, delta)
                    [] OTHER -> SetSeries(d[etype], column, values.v, delta)
         IN  [data |-> [d EXCEPT ![etype] = r.t], err |-> r.err]

\* ---------------------------------------------------------- load_actions
\* File names are sequences of characters.
FileNames == {<<"a", ".", "t">>, <<"b", ".", "t">>, <<"a", ".", "b", ".", "t">>, <<"a">>, <<"b">>}

HasDot(f) == \E k \in DOMAIN f : f[k] = "."
\* f[:f.index('.')] (line 231).
BeforeDot(f) ==
    LET k == CHOOSE j \in DOMAIN f : f[j] = "." /\ \A h \in 1 .. j - 1 : f[h] # "."
    IN  SubSeq(f, 1, k - 1)

Unbound == [bound |-> FALSE, s |-> <<>>]
Bound(s) == [bound |-> TRUE, s |-> s]
\* The local name after lines 230-231: assigned only when f holds a '.'.
NameAfter(nm, f) == IF HasDot(f) THEN Bound(BeforeDot(f)) ELSE nm

RECURSIVE ApplyActions(_, _)
\* Lines 228-229: every row of the action file through set_values, until
\* one raises.
ApplyActions(d, rows) ==
    IF rows = <<>> THEN [data |-> d, err |-> "none"]
    ELSE LET r == set_values(d, rows[1].etype, rows[1].dtype,
                             [kind |-> "dict", v |-> <<<<rows[1].idx, rows[1].value>>>>], FALSE)
         IN  IF r.err # "none" THEN r ELSE ApplyActions(r.data, Tail(rows))

\* --------------------------------------------------- dataset specification
Keys == {"a", "b", "c"}
CellVals == {0, 1}
Etypes == {"generator", "load"}
Columns == {"p0", "v0"}
BaseTable(p) ==
    [columns |-> {"mark", "p0"}, index |-> <<"a", "b">>,
     rows |-> [i \in {"a", "b"} |-> [col \in {"mark", "p0"} |-> IF col = "mark" THEN Num(1) ELSE Num(p[i])]]]
Datasets == {[e \in {"generator"} |-> BaseTable(p)] : p \in [{"a", "b"} -> CellVals]}

\* The values a caller hands to set_values.
DictValues == {[kind |-> "dict", v |-> q] : q \in {<<<<k, v>>>> : k \in Keys, v \in CellVals}
                   \cup {<<<<kk[1], v>>, <<kk[2], v>>>> : kk \in {x \in Keys \X Keys : x[1] # x[2]}, v \in CellVals}}
ArrayValues == {[kind |-> "array", v |-> q] : q \in [1 .. 2 -> CellVals] \cup [1 .. 3 -> CellVals]}
SeriesValues == {[kind |-> "series", v |-> m] : m \in UNION {[S -> CellVals] : S \in SUBSET Keys}}
\* The rows <<etype, idx, dtype, value>> an action file holds.
ActionRows == {[etype |-> e, idx |-> k, dtype |-> c, value |-> v] :
                   e \in Etypes, k \in Keys, c \in Columns, v \in CellVals}
ActionFiles == {<<>>} \cup {<<r>> : r \in ActionRows}
                 \cup {<<r1, r2>> : r1 \in {r \in ActionRows : r.idx = "a" /\ r.etype = "generator" /\ r.dtype = "p0"},
                                       r2 \in ActionRows}
FileLists == UNION {[1 .. n -> FileNames] : n \in 0 .. MaxFiles}

ActNoCall == [fn |-> "none", power |-> TRUE, wmlf |-> FALSE]
CellsBounded(d) ==
    \A e \in DOMAIN d : \A i \in Labels(d[e]) : \A col \in d[e].columns :
        d[e].rows[i][col].nan \/ d[e].rows[i][col].v <= MaxCell

InitAct ==
    /\ pc = "idle" /\ call = ActNoCall /\ ret = RetNone
    /\ tbl = <<>> /\ tbl0 = <<>>
    /\ TopoIdle
    /\ data \in Datasets /\ data0 = data
    /\ files = <<>> /\ fpos = 0 /\ name = Unbound /\ result = <<>> /\ log = <<>>

\* One call of set_values by a driver; an exception leaves what was done.
SetValues ==
    /\ pc = "idle"
    /\ \E etype \in Etypes, column \in Columns, delta \in BOOLEAN,
          values \in DictValues \cup ArrayValues \cup SeriesValues :
         LET r == set_values(data, etype, column, values, delta)
         IN  /\ CellsBounded(r.data)
             /\ data' = r.data
             /\ ret' = IF r.err = "none" THEN RetNone ELSE RetError(r.err)
    /\ UNCHANGED <<pc, call, tbl, tbl0, topoVars, data0, files, fpos, name, result, log>>

\* Lines 221-225: load_actions is entered.  With a Power instance it works on
\* that instance's dataset; with none (power = FALSE) it works on the dataset
\* it loads from base_path.
LoadEnter ==
    /\ pc = "idle"
    /\ \E fs \in FileLists, power \in BOOLEAN, wmlf \in BOOLEAN :
         /\ files' = fs
         /\ call' = [fn |-> "load_actions", power |-> power, wmlf |-> wmlf]
         /\ IF power
            THEN UNCHANGED <<data, data0>>
            ELSE \E base \in Datasets : data' = base /\ data0' = base
    /\ fpos' = 0 /\ name' = Unbound /\ result' = <<>> /\ log' = <<>>
    /\ ret' = RetNone
    /\ pc' = "loop"
    /\ UNCHANGED <<tbl, tbl0, topoVars>>

\* Lines 226-241 for the next file: its actions, its name, the save, the
\* solver's verdict.
LoadFile ==
    /\ pc = "loop" /\ fpos < Len(files)
    /\ \E actions \in ActionFiles, converged \in BOOLEAN :
         LET f == files[fpos + 1]
             r == ApplyActions(data, actions)
             nm == NameAfter(name, f)
         IN  /\ data' = r.data
             /\ IF r.err # "none"
                THEN /\ pc' = "raised" /\ ret' = RetError(r.err)
                     /\ UNCHANGED <<fpos, name, result, log>>
                ELSE IF ~nm.bound
                THEN /\ pc' = "raised" /\ ret' = RetError("UnboundLocalError")
                     /\ UNCHANGED <<fpos, name, result, log>>
                ELSE /\ name' = nm
                     /\ log' = Append(log, [file |-> f, name |-> nm.s, path |-> <<"out_path", nm.s>>])
                     /\ result' = [k \in DOMAIN result \cup {nm.s} |->
                                      IF k = nm.s THEN (IF call.wmlf THEN converged ELSE TRUE)
                                                  ELSE result[k]]
                     /\ fpos' = fpos + 1
                     /\ UNCHANGED <<pc, ret>>
    /\ UNCHANGED <<call, tbl, tbl0, topoVars, data0, files>>

\* Line 242.
LoadReturn ==
    /\ pc = "loop" /\ fpos = Len(files)
    /\ pc' = "done"
    /\ UNCHANGED <<call, ret, tbl, tbl0, topoVars, actVars>>

NextAct == SetValues \/ LoadEnter \/ LoadFile \/ LoadReturn

SpecAct == InitAct /\ [][NextAct]_vars

\* ======================================================================
\* Properties of the redistributors and of the bulk setter
\* ======================================================================
RAbs(x) == <<Abs(x[1]), x[2]>>
Finished(fn) == pc = "done" /\ call.fn = fn
Up == RLt(Zero, call.delta)
\* The participants of the generator call and their headroom before it.
GenParticipants == GenSub(tbl0, call.delta, call.indices)
GenHeadroom == RSum(GenMargin(tbl0, call.delta), GenParticipants)
\* Sum over the rows S of p0 after - p0 before.
Increase(S) == RSum([i \in Ids |-> RSub(tbl[i].p0, tbl0[i].p0)], S)
\* In-service rows within their active (and reactive) limits.
WithinP(t) == \A i \in DOMAIN t : t[i].mark = 1 => RLe(t[i].pmin, t[i].p0) /\ RLe(t[i].p0, t[i].pmax)
WithinQ(t) == \A i \in DOMAIN t : t[i].mark = 1 => RLe(t[i].qmin, t[i].q0) /\ RLe(t[i].q0, t[i].qmax)

\* C2: when |delta| exceeds the total headroom of the participants,
\* distribute_generators_p sets every participant's p0 to its limit (pmax for
\* delta > 0, pmin for delta < 0) and returns the single number
\* delta - headroom (delta > 0) or delta + headroom (delta < 0).
C2_Exceeds ==
    /\ Finished("distribute_generators_p")
    /\ call.delta # Zero
    /\ RLt(GenHeadroom, RAbs(call.delta))
C2_SaturateAndReportShortfall ==
    C2_Exceeds =>
        /\ \A i \in GenParticipants :
              tbl[i].p0 = IF Up THEN tbl0[i].pmax ELSE tbl0[i].pmin
        /\ ret = RetFloat(IF Up THEN RSub(call.delta, GenHeadroom)
                                ELSE RAdd(call.delta, GenHeadroom))

\* C3: when |delta| <= total headroom, for every indices, sigma and clip,
\* distribute_generators_p returns 0.0, the p0 increases of all generators sum
\* to delta, every participant's share is proportional to its headroom when
\* sigma is None, and no non-participant's p0 changes.
C3_Satisfiable ==
    /\ Finished("distribute_generators_p")
    /\ RLe(RAbs(call.delta), GenHeadroom)
C3_FullyAbsorbed ==
    C3_Satisfiable =>
        /\ ret = RetFloat(Zero)
        /\ Increase(Ids) = call.delta
        /\ ~call.sigma.on =>
              \A i \in GenParticipants :
                 RMul(RSub(tbl[i].p0, tbl0[i].p0), GenHeadroom)
                    = RMul(GenMargin(tbl0, call.delta)[i], call.delta)
        /\ \A i \in Ids \ GenParticipants : tbl[i].p0 = tbl0[i].p0

\* C8: distribute_loads_p with clip = False, for every delta, indices and
\* p_sigma: every participant ends with p0 before + weight / totalWeight *
\* delta, so that the participants' increases sum to delta, and no
\* non-participant's p0 changes.
C8_Participants == LoadSub(tbl0, call.indices)
C8_DeltaFullyApplied ==
    (Finished("distribute_loads_p") /\ ~call.clip) =>
        LET weight == LoadRatio(tbl0, C8_Participants, call.sigma)
            total == RSum(weight, C8_Participants)
        IN  /\ \A i \in C8_Participants :
                  tbl[i].p0 = RAdd(tbl0[i].p0, RMul(RDiv(weight[i], total), call.delta))
            /\ C8_Participants # {} => Increase(C8_Participants) = call.delta
            /\ \A i \in Ids \ C8_Participants : tbl[i].p0 = tbl0[i].p0

\* C9 as stated: set_gl_p0 with keep_factor = True, clip = False and value =
\* the current p0 column leaves every row's q0 and p0 as they were.
C9_RoundTripCall ==
    /\ Finished("set_gl_p0")
    /\ call.keep_factor /\ ~call.clip
    /\ call.value = [i \in Ids |-> tbl0[i].p0]
C9_RoundTripExact ==
    C9_RoundTripCall => \A i \in Ids : tbl[i].q0 = tbl0[i].q0 /\ tbl[i].p0 = tbl0[i].p0

\* C9 amended: the round trip keeps every p0 and sets every q0 to
\* q0 * p0 / (p0 + EPS).  A row with p0 = 0 therefore ends with q0 = 0, and a
\* row with p0 > 0 ends within |q0| * EPS / p0 of its q0.
C9_RoundTripUpToEps ==
    C9_RoundTripCall =>
        \A i \in Ids :
            /\ tbl[i].p0 = tbl0[i].p0
            /\ tbl[i].q0 = RDiv(RMul(tbl0[i].q0, tbl0[i].p0), RAdd(tbl0[i].p0, EPS))
            /\ tbl0[i].p0 = Zero => tbl[i].q0 = Zero
            /\ RLt(Zero, tbl0[i].p0) =>
                  RLe(RMul(RAbs(RSub(tbl0[i].q0, tbl[i].q0)), tbl0[i].p0),
                      RMul(EPS, RAbs(tbl0[i].q0)))
\* A round trip over a row with p0 = 0 that loses a non-zero q0, beside a row
\* with p0 > 0 whose non-zero q0 moves.
C9_Witness ==
    /\ C9_RoundTripCall
    /\ \E i \in Ids : tbl0[i].p0 = Zero /\ tbl0[i].q0 # Zero /\ tbl[i].q0 = Zero
    /\ \E i \in Ids : RLt(Zero, tbl0[i].p0) /\ tbl0[i].q0 # Zero /\ tbl[i].q0 # tbl0[i].q0

\* A finished call with clip = True of one of the three clipping operations.
C5_Call ==
    /\ pc = "done" /\ call.clip
    /\ call.fn \in {"distribute_generators_p", "distribute_loads_p", "set_gl_p0"}

\* C5 as stated: after any call with clip = True every in-service row is
\* within its limits, whatever the values before the call.
C5_LimitsEstablished ==
    C5_Call => WithinP(tbl) /\ WithinQ(tbl)

\* C5 amended: a call with clip = True of distribute_generators_p,
\* distribute_loads_p or set_gl_p0 on a table whose in-service rows are within
\* their limits leaves every in-service row within its limits; set_gl_p0
\* does so whatever the values before the call, and distribute_loads_p
\* leaves p0 within its limits whatever the values before the call.
C5_LimitsPreserved ==
    C5_Call =>
        /\ (WithinP(tbl0) /\ WithinQ(tbl0)) => (WithinP(tbl) /\ WithinQ(tbl))
        /\ call.fn = "set_gl_p0" => (WithinP(tbl) /\ WithinQ(tbl))
        /\ call.fn = "distribute_loads_p" => WithinP(tbl)
\* A generator call on a table within its limits whose perturbed share
\* carries an in-service row past pmax before the clip, and which ends at pmax.
C5_Witness ==
    /\ Finished("distribute_generators_p") /\ call.clip
    /\ WithinP(tbl0) /\ WithinQ(tbl0)
    /\ \E i \in GenParticipants :
          /\ RLt(tbl0[i].pmax,
                 distribute_generators_p(tbl0, call.delta, call.indices, call.sigma, FALSE).tbl[i].p0)
          /\ tbl[i].p0 = tbl0[i].pmax

\* ======================================================================
\* Properties of random_open_acline
\* ======================================================================
InCall == pc \in {"loop", "done", "raised"} /\ call.fn = "random_open_acline"
\* The in-service branches before the call and now.
InService0 == BuildGraph(acline0, transformer)
InServiceNow == BuildGraph(acline, transformer)
Range(q) == {q[k] : k \in DOMAIN q}

\* C1: with keep_link, the terminals of every acline the call has opened are
\* still joined by the branches that remain in service; equivalently any two
\* buses joined before the call are still joined, in every state of the loop.
C1_NoNewIsland ==
    (InCall /\ call.keep_link) =>
        /\ \A idx \in Range(opened) :
              is_connected(InServiceNow, acline[idx].ibus, acline[idx].jbus, {})
        /\ \A a \in Buses, b \in Buses :
              is_connected(InService0, a, b, {}) => is_connected(InServiceNow, a, b, {})

\* C4: when the call raises, the mark column is what it was before the call.
C4_RaiseOpensNone == (InCall /\ pc = "raised") => acline = acline0

\* C10: every iteration removes one candidate from the pool, so there are at
\* most as many draws as candidates at entry; a rejected draw leaves the
\* remaining count alone; the call ends, by raising or by returning exactly
\* num pairwise distinct identifiers, each an in-service acline with
\* ibus # jbus at entry and with mark = 0 at exit.
C10_Progress ==
    InCall =>
        /\ draws + Cardinality(indices) = Cardinality(Candidates(acline0))
        /\ Len(opened) + num = call.num
        /\ draws >= Len(opened)
        /\ pc = "done" =>
              /\ Len(opened) = call.num
              /\ Cardinality(Range(opened)) = Len(opened)
              /\ \A idx \in Range(opened) :
                    /\ idx \in Candidates(acline0)
                    /\ acline[idx].mark = 0
C10_Terminates == []C10_Progress /\ <>(pc \in {"done", "raised"})
\* A call with keep_link that returns after a rejected draw.
C10_Witness ==
    /\ InCall /\ pc = "done" /\ call.keep_link
    /\ call.num >= 1 /\ draws > Len(opened)

\* ======================================================================
\* Properties of set_values and load_actions
\* ======================================================================
\* C6: whatever operations ran, every table holds exactly the identifiers it
\* held at the start; an edit naming an unknown identifier adds no row.
C6_RowSetPreserved ==
    /\ DOMAIN data = DOMAIN data0
    /\ \A e \in DOMAIN data : Labels(data[e]) = Labels(data0[e])

\* The scenario name of a file: the portion before its first '.', the whole
\* name when it holds none.
ScenarioName(f) == IF HasDot(f) THEN BeforeDot(f) ELSE f

\* C7: every file yields a scenario named after that file, saved under
\* out_path/<name>, with one result entry under that name; no file is lost
\* to an error of the bookkeeping, and on return every file has its entry.
C7_ScenarioPerFile ==
    call.fn = "load_actions" =>
        /\ \A k \in DOMAIN log :
              /\ log[k].file = files[k]
              /\ log[k].name = ScenarioName(files[k])
              /\ log[k].path = <<"out_path", ScenarioName(files[k])>>
              /\ log[k].name \in DOMAIN result
        /\ ret # RetError("UnboundLocalError")
        /\ pc = "done" =>
              /\ Len(log) = Len(files)
              /\ DOMAIN result = {ScenarioName(files[k]) : k \in DOMAIN files}
====
